---- MODULE Spec2Model ----
(***************************************************************************)
(* Model of the backup-monitor telemetry collector:                        *)
(*   chart/app/dns_server.py  BeaconResolver (DNS beacon listener)         *)
(*   chart/app/main.py        telemetry HTTP API                           *)
(*                                                                         *)
(* Strings are sequences of one-character strings, so that endswith,       *)
(* slicing, rstrip, split and replace are computed as Python computes      *)
(* them.  A Python value that may be None is a sequence of length at most  *)
(* one: << >> is None and <<v>> is the value v.                            *)
(*                                                                         *)
(* dnslib's DNSServer serves UDP with a socketserver.ThreadingMixIn        *)
(* server: every datagram is handled by resolve() on a thread of its own,  *)
(* and all of them share the one BeaconResolver instance built in main().  *)
(* A handler is therefore a process with a position (pc); its steps are    *)
(* the statements of resolve/_log_beacon/_get_conn, cut at the calls that  *)
(* block (connect, sleep, execute, close).                                 *)
(***************************************************************************)
EXTENDS Integers, Sequences, FiniteSets, TLC

\* ------------------------------------------------------------------ bounds
NumHandlers == 2
MaxQueries == 2
MaxPriorFailures == 5
MaxLabels == 4
MaxPosts == 2
MaxGets == 2
MaxBootQueries == 1
MaxBootPosts == 1
MaxRestarts == 1

\* ------------------------------------------------------- program constants
BackoffFloor == 1
BackoffCeiling == 60
BackoffFactor == 2
FingerprintMax == 16
SrcHashMax == 16
ToolVersionMax == 20
EventMax == 50
LimitFloor == 1
LimitCeiling == 1000
LimitDefault == 100

\* ----------------------------------------------------------------- strings
BEACON_SUFFIX ==
  <<".", "b", ".", "b", "a", "c", "k", "u", "p", "-", "m", "o", "n", "i", "t", "o", "r", ".", "g", "r", ".">>

UpperToLower == [A |-> "a", B |-> "b", C |-> "c", G |-> "g", K |-> "k", R |-> "r"]

LowerChar(c) == IF c \in DOMAIN UpperToLower THEN UpperToLower[c] ELSE c

\* str.lower()
Lower(s) == [i \in 1..Len(s) |-> LowerChar(s[i])]

\* str.endswith(suf)
EndsWith(s, suf) ==
  /\ Len(s) >= Len(suf)
  /\ SubSeq(s, Len(s) - Len(suf) + 1, Len(s)) = suf

\* s[:-n] for n > 0
DropLast(s, n) == IF Len(s) <= n THEN << >> ELSE SubSeq(s, 1, Len(s) - n)

\* str.rstrip(ch)
RECURSIVE RStrip(_, _)
RStrip(s, ch) ==
  IF Len(s) > 0 /\ s[Len(s)] = ch THEN RStrip(SubSeq(s, 1, Len(s) - 1), ch) ELSE s

\* index of the first occurrence of ch in s, 0 when there is none
RECURSIVE FindFrom(_, _, _)
FindFrom(s, ch, i) ==
  IF i > Len(s) THEN 0 ELSE IF s[i] = ch THEN i ELSE FindFrom(s, ch, i + 1)

\* str.split(sep) with a one-character separator: never an empty list
RECURSIVE Split(_, _)
Split(s, sep) ==
  LET k == FindFrom(s, sep, 1)
  IN  IF k = 0 THEN <<s>>
      ELSE <<SubSeq(s, 1, k - 1)>> \o Split(SubSeq(s, k + 1, Len(s)), sep)

\* str.replace(old, new) for one-character old and new
Replace(s, old, new) == [i \in 1..Len(s) |-> IF s[i] = old THEN new ELSE s[i]]

None == << >>
Some(v) == <<v>>

\* -------------------------------------------------- resolve: beacon decode
IsBeaconNoDot(qname) == EndsWith(Lower(qname), Tail(Lower(BEACON_SUFFIX)))

\* qname.lower().endswith(BEACON_SUFFIX.lower())
IsBeacon(qname) == EndsWith(Lower(qname), Lower(BEACON_SUFFIX))

\* prefix = qname[: -(len(BEACON_SUFFIX))].rstrip(".")
Prefix(qname) == RStrip(DropLast(qname, Len(BEACON_SUFFIX)), ".")

\* parts = prefix.split(".")
Parts(qname) == Split(Prefix(qname), ".")

Fingerprint(parts) == IF Len(parts) >= 1 THEN Some(parts[1]) ELSE None

SrcHash(parts) == IF Len(parts) >= 2 THEN Some(parts[2]) ELSE None

ToolVersionRaw(parts) == IF Len(parts) >= 3 THEN Some(parts[3]) ELSE None

ToolVersion(parts) == IF Len(parts) >= 3 THEN Some(Replace(parts[3], "-", ".")) ELSE None

\* source = handler.client_address, a (host, port) tuple
SourceIp(source) == IF Len(source) > 0 THEN Some(source[1]) ELSE None

SourcePort(source) == IF Len(source) > 1 THEN Some(source[2]) ELSE None

BeaconRowStripped(source, qname) ==
  [source_ip    |-> SourceIp(source),
   source_port  |-> SourcePort(source),
   query_name   |-> Prefix(qname),
   fingerprint  |-> Fingerprint(Parts(qname)),
   src_hash     |-> SrcHash(Parts(qname)),
   tool_version |-> ToolVersion(Parts(qname))]

\* the argument tuple of the INSERT in _log_beacon, as resolve builds it
BeaconRow(source, qname) ==
  [source_ip    |-> SourceIp(source),
   source_port  |-> SourcePort(source),
   query_name   |-> qname,
   fingerprint  |-> Fingerprint(Parts(qname)),
   src_hash     |-> SrcHash(Parts(qname)),
   tool_version |-> ToolVersion(Parts(qname))]

\* dns_beacon_log column widths: a value longer than its VARCHAR(n) is refused
FitsIn(opt, n) == IF opt = None THEN TRUE ELSE Len(opt[1]) <= n

RowFits(row) ==
  /\ FitsIn(row.fingerprint, FingerprintMax)
  /\ FitsIn(row.src_hash, SrcHashMax)
  /\ FitsIn(row.tool_version, ToolVersionMax)

\* ------------------------------------------------------------------ inputs
Str3 == <<"a", "b", "c", ".", "d", "e", ".", "1", "-", "2", "-", "3">>
Long17 == [i \in 1..(FingerprintMax + 1) |-> "f"]

QNames ==
  { Str3 \o BEACON_SUFFIX,                  \* fingerprint.src_hash.version
    Long17 \o BEACON_SUFFIX,                \* a label wider than its column
    Tail(BEACON_SUFFIX) }                   \* the zone apex: the suffix without its leading dot

Peers == { <<"10.0.0.1", 40000>> }

\* names for the decode: up to MaxLabels labels (an empty one among them, so
\* that leading, doubled and trailing dots occur) before each of the tails
Labels == { << >>, <<"a">>, <<"b", "-", "c">> }

RECURSIVE Join(_, _)
Join(ls, sep) ==
  IF Len(ls) = 0 THEN << >>
  ELSE IF Len(ls) = 1 THEN ls[1]
  ELSE ls[1] \o <<sep>> \o Join(Tail(ls), sep)

RECURSIVE LabelSeqs(_)
LabelSeqs(n) ==
  IF n = 0 THEN { << >> }
  ELSE LET S == LabelSeqs(n - 1)
       IN  S \cup { Append(ls, l) : ls \in { t \in S : Len(t) = n - 1 }, l \in Labels }

UpperSuffix ==
  <<".", "B", ".", "B", "A", "C", "K", "u", "p", "-", "m", "o", "n", "i", "t", "o", "r", ".", "G", "R", ".">>

Tails ==
  { BEACON_SUFFIX,
    UpperSuffix,
    Tail(BEACON_SUFFIX),
    BEACON_SUFFIX \o <<"x", ".">>,
    <<".", "c", "o", "m", ".">> }

SpecExample ==
  <<"a", "b", "c", "1", "2", "3", ".", "d", "e", "a", "d", "b", "e", "e", "f", ".", "1", "-", "2", "-", "3">>

DecodeNames ==
  { Join(ls, ".") \o t : ls \in LabelSeqs(MaxLabels), t \in Tails }
    \cup { SpecExample \o BEACON_SUFFIX, Long17 \o BEACON_SUFFIX }

\* ------------------------------------------------------------------- state
Handlers == 1..NumHandlers
ConnIds == 1..(NumHandlers + 1)
NoConn == 0

VARIABLES
  conn,       \* self._conn: NoConn (None) or a connection id
  connState,  \* per connection object: "free", "open", "broken" or "closed"
  backoff,    \* self._backoff
  log,        \* the rows of dns_beacon_log, in insertion order
  dbUp,       \* whether the store accepts connections and statements
  pc,         \* per handler thread: position in resolve/_log_beacon/_get_conn
  qn,         \* per handler: str(request.q.qname) of the query in hand
  peer,       \* per handler: handler.client_address of the query in hand
  lconn,      \* per handler: the local conn of _log_beacon
  delay,      \* per handler: the argument of the time.sleep of this call
  doubled,    \* per handler: the value of min(self._backoff * 2, 60), not yet assigned
  received,   \* datagrams received so far
  answered,   \* replies returned by resolve so far
  rcodes,     \* the result codes of the replies returned so far
  outcome,    \* how the handling that returned last went (history)
  events,     \* the rows of telemetry_events, in insertion order
  hpc,        \* the ingest request in hand: "idle" or "execute" (at pool.execute)
  hargs,      \* the arguments ingest_telemetry has computed for its INSERT
  resp,       \* the response of the ingest request that ended last
  posted,     \* POST requests received so far
  hbody,      \* the decoded body of the POST request received last (history)
  acked,      \* {"status": "ok"} responses returned so far (history)
  hhdrs       \* the headers and peer of the POST request received last (history)

VARIABLES
  qpc,        \* the query request in hand: "idle" or "fetch" (at pool.fetch)
  qstmt,      \* the statement and arguments the query handler has built
  qresp,      \* the response of the query request that ended last
  qreq,       \* the endpoint and parameters of the GET request received last (history)
  gets,       \* GET requests received so far
  fetched     \* pool.fetch calls made so far (history)

queryVars == <<qpc, qstmt, qresp, qreq, gets, fetched>>

ingestVars == <<events, hpc, hargs, resp, posted, hbody, acked, hhdrs>>

httpVars == <<ingestVars, queryVars>>

VARIABLES
  schema,     \* whether the store holds the tables and indexes of SCHEMA_SQL
  appState,   \* the HTTP application: "starting", "pool", "serving" or "failed"
  dnsState,   \* the DNS process: "starting" or "listening"
  ensured     \* completed runs of SCHEMA_SQL since the processes started (history)

bootVars == <<schema, appState, dnsState, ensured>>

vars == <<conn, connState, backoff, log, dbUp, pc, qn, peer, lconn, delay, doubled, received, answered, rcodes, outcome, httpVars, bootVars>>

Min(a, b) == IF a < b THEN a ELSE b

\* reply.header.rcode = RCODE.NXDOMAIN
Rcode == "NXDOMAIN"

\* A connection object nothing refers to any more is reclaimed (CPython frees
\* it, which closes it), and its id can name a later connection.
Collect(cs, c, lc) ==
  [i \in ConnIds |-> IF i = c \/ (\E h \in Handlers : lc[h] = i) THEN cs[i] ELSE "free"]

FreshId ==
  CHOOSE i \in ConnIds : connState[i] = "free" /\ \A j \in ConnIds : connState[j] = "free" => i <= j

\* where control goes when the statement raises
OnConnectError == "sleep"      \* except Exception at _get_conn
OnInsertErrorPropagates == "raised"
OnInsertError == "close"       \* except Exception at _log_beacon
OnCloseError == "discard"      \* except Exception: pass

\* self._backoff = min(self._backoff * 2, 60)
NextBackoff(b) == Min(b * BackoffFactor, BackoffCeiling)

\* self._backoff after k connect failures in a row
RECURSIVE BackoffAfter(_)
BackoffAfter(k) == IF k = 0 THEN BackoffFloor ELSE NextBackoff(BackoffAfter(k - 1))

\* ------------------------------------------------- telemetry ingest (pure)
\* A decoded JSON value: a string, a number, null, or (for a key of the body)
\* absent. Every value carries all three fields so that values compare.
JStr(s) == [t |-> "str", s |-> s, n |-> 0]
JInt(n) == [t |-> "int", s |-> << >>, n |-> n]
JNull == [t |-> "null", s |-> << >>, n |-> 0]
Absent == [t |-> "absent", s |-> << >>, n |-> 0]

\* the keys of the body the model follows, in the order the client wrote them
BodyKeys == <<"event", "fingerprint", "timestamp">>

\* body.get(key): None when the key is missing
Get(body, key) == IF body[key].t = "absent" THEN JNull ELSE body[key]

\* body.get(key, default)
GetDefault(body, key, default) == IF body[key].t = "absent" THEN default ELSE body[key]

\* the default of body.get("event", "unknown")
Unknown == <<"u", "n", "k", "n", "o", "w", "n">>

\* Python truthiness of a decoded value: None, "" and 0 are false
Truthy(v) == IF v.t = "str" THEN v.s # << >> ELSE IF v.t = "int" THEN v.n # 0 ELSE FALSE

RECURSIVE LStrip(_, _)
LStrip(s, ch) ==
  IF s # << >> /\ Head(s) = ch THEN LStrip(Tail(s), ch) ELSE s

\* str.strip(), for the blank
Strip(s) == LStrip(RStrip(s, " "), " ")

\* str.replace(old, new) for a one-character old
RECURSIVE ReplaceWith(_, _, _)
ReplaceWith(s, old, new) ==
  IF s = << >> THEN << >>
  ELSE (IF Head(s) = old THEN new ELSE <<Head(s)>>) \o ReplaceWith(Tail(s), old, new)

DigitChars == <<"0", "1", "2", "3", "4", "5", "6", "7", "8", "9">>
IsDigit(c) == \E i \in 1..Len(DigitChars) : DigitChars[i] = c
DigitVal(c) == (CHOOSE i \in 1..Len(DigitChars) : DigitChars[i] = c) - 1
AllDigits(s, idx) == \A i \in idx : IsDigit(s[i])
Num2(s, i) == DigitVal(s[i]) * 10 + DigitVal(s[i + 1])

\* datetime.fromisoformat accepts YYYY-MM-DD, one separator character,
\* HH:MM:SS, and then nothing or a +HH:MM / -HH:MM offset
IsIsoLocal(s) ==
  /\ Len(s) >= 19
  /\ AllDigits(s, {1, 2, 3, 4, 6, 7, 9, 10, 12, 13, 15, 16, 18, 19})
  /\ s[5] = "-" /\ s[8] = "-" /\ s[14] = ":" /\ s[17] = ":"
  /\ Num2(s, 6) \in 1..12 /\ Num2(s, 9) \in 1..31
  /\ Num2(s, 12) < 24 /\ Num2(s, 15) < 60 /\ Num2(s, 18) < 60

IsIsoOffset(o) ==
  /\ Len(o) = 6
  /\ o[1] \in {"+", "-"}
  /\ AllDigits(o, {2, 3, 5, 6})
  /\ o[4] = ":"
  /\ Num2(o, 2) < 24 /\ Num2(o, 5) < 60

IsIso(s) ==
  IF IsIsoLocal(s)
  THEN IF Len(s) = 19 THEN TRUE ELSE IsIsoOffset(SubSeq(s, 20, Len(s)))
  ELSE FALSE

\* the datetime fromisoformat builds: the wall-clock fields and the offset
\* (None for a naive datetime)
FromIsoFormat(s) ==
  [wall |-> [SubSeq(s, 1, 19) EXCEPT ![11] = "T"],
   offset |-> IF Len(s) = 19 THEN None ELSE Some(SubSeq(s, 20, Len(s)))]

\* what the try block of the timestamp parse raises: nothing, AttributeError
\* (.replace on a value that is not a string) or ValueError (fromisoformat)
TsRaised(body) ==
  LET ts_raw == Get(body, "timestamp") IN
  IF Truthy(ts_raw)
  THEN IF ts_raw.t = "str"
       THEN IF IsIso(ReplaceWith(ts_raw.s, "Z", <<"+", "0", "0", ":", "0", "0">>))
            THEN "none" ELSE "ValueError"
       ELSE "AttributeError"
  ELSE "none"

\* except (ValueError, AttributeError): pass
TsCaughtValueOnly == {"ValueError"}
TsCaught == {"ValueError", "AttributeError"}

\* client_ts: None unless ts_raw is truthy and parses; a non-string raises
\* AttributeError at .replace and an unparseable string ValueError, both passed
ClientTs(body) ==
  LET ts_raw == Get(body, "timestamp") IN
  IF Truthy(ts_raw)
  THEN IF ts_raw.t = "str"
       THEN LET iso == ReplaceWith(ts_raw.s, "Z", <<"+", "0", "0", ":", "0", "0">>) IN
            IF IsIso(iso) THEN Some(FromIsoFormat(iso)) ELSE None
       ELSE None
  ELSE None

HeaderSourceIpPeerOnly(hdrs) == hdrs.client

\* source_ip: CF-Connecting-IP, or the first X-Forwarded-For entry, or the peer
\* (or picks the first operand that is not None and not "")
HeaderSourceIp(hdrs) ==
  IF (IF hdrs.cf = None THEN FALSE ELSE hdrs.cf[1] # << >>)
  THEN hdrs.cf[1]
  ELSE LET xff == IF hdrs.xff = None THEN << >> ELSE hdrs.xff[1]
           first == Strip(Split(xff, ",")[1])
       IN IF first # << >> THEN first ELSE hdrs.client

\* json.dumps(body): the members of the body, in order
JsonDumps(body) ==
  SelectSeq([i \in 1..Len(BodyKeys) |-> <<BodyKeys[i], body[BodyKeys[i]]>>],
            LAMBDA m : m[2].t # "absent")

\* the argument list of the INSERT of ingest_telemetry
TelemetryArgs(body, hdrs) ==
  [source_ip |-> HeaderSourceIp(hdrs),
   event |-> GetDefault(body, "event", JStr(Unknown)),
   fingerprint |-> Get(body, "fingerprint"),
   client_timestamp |-> ClientTs(body),
   raw_payload |-> JsonDumps(body)]

\* a VARCHAR(n) column takes null or a string of at most n characters; the
\* driver refuses a value that is not a string
VarcharTakes(v, n) ==
  IF v.t = "null" THEN TRUE ELSE IF v.t = "str" THEN Len(v.s) <= n ELSE FALSE

\* telemetry_events takes the row: event VARCHAR(50) NOT NULL, fingerprint VARCHAR(16)
ArgsAccepted(args) ==
  /\ args.event.t # "null"
  /\ VarcharTakes(args.event, EventMax)
  /\ VarcharTakes(args.fingerprint, FingerprintMax)

\* the row telemetry_events holds for the arguments
TelemetryRow(args) ==
  [source_ip |-> args.source_ip,
   event |-> args.event.s,
   fingerprint |-> IF args.fingerprint.t = "null" THEN None ELSE Some(args.fingerprint.s),
   client_timestamp |-> args.client_timestamp,
   raw_payload |-> args.raw_payload]

\* the request bodies and headers posted
Long51 == [i \in 1..(EventMax + 1) |-> "e"]
Backup == <<"b", "a", "c", "k", "u", "p">>
IsoZ == <<"2", "0", "2", "4", "-", "0", "1", "-", "0", "1", "T", "0", "0", ":", "0", "0", ":", "0", "0", "Z">>
NotADate == <<"n", "o", "t", "-", "a", "-", "d", "a", "t", "e">>
Ip1 == <<"1", "0", ".", "0", ".", "0", ".", "9">>
Ip2 == <<"2", ".", "2", ".", "2", ".", "2">>
Ip3 == <<"3", ".", "3", ".", "3", ".", "3">>
Forwarded == <<" ">> \o Ip2 \o <<" ", ",", " ">> \o Ip3

Object(e, f, ts) == [kind |-> "object", event |-> e, fingerprint |-> f, timestamp |-> ts]

Bodies ==
  { Object(Absent, Absent, Absent),
    Object(JStr(Backup), JStr(<<"a", "b", "c">>), JStr(IsoZ)),
    Object(JStr(<< >>), Absent, Absent),
    Object(JNull, Absent, Absent),
    Object(JInt(7), Absent, Absent),
    Object(JStr(Long51), Absent, Absent),
    Object(JStr(Backup), Absent, JStr(NotADate)),
    Object(JStr(Backup), Absent, JInt(5)),
    Object(JStr(Backup), JStr(Long17), Absent),
    [kind |-> "array", event |-> Absent, fingerprint |-> Absent, timestamp |-> Absent] }

Headers ==
  { [cf |-> None, xff |-> None, client |-> Ip1],
    [cf |-> Some(Ip3), xff |-> Some(Ip2), client |-> Ip1],
    [cf |-> None, xff |-> Some(Forwarded), client |-> Ip1],
    [cf |-> Some(<< >>), xff |-> Some(<<" ">>), client |-> Ip1] }

\* ------------------------------------------------------ query endpoints (pure)
Max(a, b) == IF a > b THEN a ELSE b

\* limit = min(max(1, limit), 1000)
ClampNoFloor(limit) == Min(limit, LimitCeiling)
Clamp(limit) == Min(Max(LimitFloor, limit), LimitCeiling)

\* the limit parameter of the handler: the default when the request has none
LimitParam(limit) == IF limit = None THEN LimitDefault ELSE limit[1]

\* a bound argument: a string, or the datetime parsed from since
PStr(s) == [t |-> "str", s |-> s, d |-> None]
PTs(d) == [t |-> "ts", s |-> << >>, d |-> Some(d)]

\* if x: for an optional query parameter (None and "" are false)
Given(x) == IF x = None THEN FALSE ELSE x[1] # << >>

\* clauses = [], params = [], idx = 1
NoClauses == [clauses |-> << >>, params |-> << >>, idx |-> 1]

\* if v: clauses.append(f"{col} = ${idx}"); params.append(v); idx += 1
AddEqFirstPlaceholder(st, col, v) ==
  IF Given(v)
  THEN [clauses |-> Append(st.clauses, [col |-> col, op |-> "=", ph |-> 1]),
        params |-> Append(st.params, PStr(v[1])),
        idx |-> st.idx + 1]
  ELSE st

AddEq(st, col, v) ==
  IF Given(v)
  THEN [clauses |-> Append(st.clauses, [col |-> col, op |-> "=", ph |-> st.idx]),
        params |-> Append(st.params, PStr(v[1])),
        idx |-> st.idx + 1]
  ELSE st

\* since.replace("Z", "+00:00")
SinceIso(since) == ReplaceWith(since[1], "Z", <<"+", "0", "0", ":", "0", "0">>)

\* datetime.fromisoformat raises ValueError
SinceRaises(since) == IF Given(since) THEN ~IsIso(SinceIso(since)) ELSE FALSE

\* if since: clauses.append(f"received_at >= ${idx}"); params.append(...); idx += 1
AddSince(st, since) ==
  IF Given(since)
  THEN [clauses |-> Append(st.clauses, [col |-> "received_at", op |-> ">=", ph |-> st.idx]),
        params |-> Append(st.params, PTs(FromIsoFormat(SinceIso(since)))),
        idx |-> st.idx + 1]
  ELSE st

\* the pool.fetch call: SELECT * FROM table WHERE clauses ORDER BY received_at
\* DESC LIMIT $idx, with the arguments *params, limit
Statement(table, st, limit) ==
  [table |-> table, where |-> st.clauses, limit_ph |-> st.idx,
   args |-> st.params, limit |-> Clamp(limit)]

\* what query_telemetry builds
TelemetryQuery(fingerprint, environment, since, limit) ==
  Statement("telemetry_events",
            AddSince(AddEq(AddEq(NoClauses, "fingerprint", fingerprint),
                           "environment", environment), since),
            limit)

\* what query_dns builds
DnsQuery(fingerprint, since, limit) ==
  Statement("dns_beacon_log",
            AddSince(AddEq(NoClauses, "fingerprint", fingerprint), since),
            limit)

\* the responses of the query handlers
NoResponse == [status |-> 0, error |-> ""]
RowsResponse == [status |-> 200, error |-> ""]
ServerError == [status |-> 500, error |-> ""]
OnSinceErrorIgnored == RowsResponse
OnSinceError == [status |-> 400, error |-> "invalid 'since' format"]

\* the query parameters requested
FingerprintParams == {None, Some(<< >>), Some(<<"a", "b", "c">>)}
EnvironmentParams == {None, Some(<<"p", "r", "o", "d">>)}
SinceParams == {None, Some(<< >>), Some(IsoZ), Some(NotADate)}
LimitParams ==
  {None, Some(0 - 3), Some(0), Some(LimitFloor), Some(LimitDefault + 400),
   Some(LimitCeiling), Some(LimitCeiling + 1), Some(5 * LimitCeiling)}

QueryInit ==
  /\ qpc = "idle"
  /\ qstmt = None
  /\ qresp = NoResponse
  /\ qreq = None
  /\ gets = 0
  /\ fetched = 0

\* both processes after startup: lifespan has created the pool and run
\* SCHEMA_SQL once, and main() has started the listener
Started ==
  /\ schema = TRUE
  /\ appState = "serving"
  /\ dnsState = "listening"
  /\ ensured = 1

\* the application after startup: an empty table and no request in hand
HttpInit ==
  /\ events = << >>
  /\ hpc = "idle"
  /\ hargs = None
  /\ resp = "none"
  /\ posted = 0
  /\ hbody = None
  /\ acked = 0
  /\ hhdrs = None
  /\ QueryInit

\* The resolver as main() builds it, or as an earlier run of MaxPriorFailures
\* failed connects left it: no connection, and the backoff those failures grew.
Init ==
  /\ conn = NoConn
  /\ connState = [i \in ConnIds |-> "free"]
  /\ backoff \in {BackoffAfter(0), BackoffAfter(MaxPriorFailures)}
  /\ log = << >>
  /\ dbUp = (backoff = BackoffFloor)
  /\ pc = [h \in Handlers |-> "idle"]
  /\ qn = [h \in Handlers |-> << >>]
  /\ peer = [h \in Handlers |-> << >>]
  /\ lconn = [h \in Handlers |-> NoConn]
  /\ delay = [h \in Handlers |-> 0]
  /\ doubled = [h \in Handlers |-> 0]
  /\ received = 0
  /\ answered = 0
  /\ rcodes = {}
  /\ outcome = "none"
  /\ HttpInit
  /\ Started

\* return reply: resolve hands its reply back and the handler thread ends
Returned(h, how) ==
  /\ outcome' = how
  /\ pc' = [pc EXCEPT ![h] = "idle"]
  /\ qn' = [qn EXCEPT ![h] = << >>]
  /\ peer' = [peer EXCEPT ![h] = << >>]
  /\ delay' = [delay EXCEPT ![h] = 0]
  /\ answered' = answered + 1
  /\ rcodes' = rcodes \cup {Rcode}

\* a datagram arrives and a handler thread is started for it (threads are
\* interchangeable: the new one takes the lowest free slot)
Receive(h, q, src) ==
  /\ dnsState = "listening"
  /\ pc[h] = "idle"
  /\ \A g \in Handlers : pc[g] = "idle" => h <= g
  /\ received < MaxQueries
  /\ received' = received + 1
  /\ qn' = [qn EXCEPT ![h] = q]
  /\ peer' = [peer EXCEPT ![h] = src]
  /\ pc' = [pc EXCEPT ![h] = "resolve"]
  /\ UNCHANGED <<conn, connState, backoff, log, dbUp, lconn, delay, doubled, answered, rcodes, outcome, httpVars, bootVars>>

\* resolve: a beacon name goes on to _log_beacon
ResolveBeacon(h) ==
  /\ pc[h] = "resolve"
  /\ IsBeacon(qn[h])
  /\ pc' = [pc EXCEPT ![h] = "get_conn"]
  /\ UNCHANGED <<conn, connState, backoff, log, dbUp, qn, peer, lconn, delay, doubled, received, answered, rcodes, outcome, httpVars, bootVars>>

\* resolve: any other name is answered at once
ResolveOther(h) ==
  /\ pc[h] = "resolve"
  /\ ~IsBeacon(qn[h])
  /\ Returned(h, "not_beacon")
  /\ UNCHANGED <<conn, connState, backoff, log, dbUp, lconn, doubled, received, httpVars, bootVars>>

\* _get_conn: if self._conn is None or self._conn.closed
NeedsConnect == IF conn = NoConn THEN TRUE ELSE connState[conn] = "closed"

GetConn(h) ==
  /\ pc[h] = "get_conn"
  /\ pc' = [pc EXCEPT ![h] = IF NeedsConnect THEN "connect" ELSE "return_conn"]
  /\ UNCHANGED <<conn, connState, backoff, log, dbUp, qn, peer, lconn, delay, doubled, received, answered, rcodes, outcome, httpVars, bootVars>>

\* psycopg2.connect succeeds: self._conn = <new>, autocommit, self._backoff = 1
ConnectOk(h) ==
  /\ pc[h] = "connect"
  /\ dbUp
  /\ conn' = FreshId
  /\ connState' = Collect([connState EXCEPT ![FreshId] = "open"], FreshId, lconn)
  /\ backoff' = BackoffFloor
  /\ pc' = [pc EXCEPT ![h] = "return_conn"]
  /\ UNCHANGED <<log, dbUp, qn, peer, lconn, delay, doubled, received, answered, rcodes, outcome, httpVars, bootVars>>

\* psycopg2.connect raises: self._conn = None
ConnectFail(h) ==
  /\ pc[h] = "connect"
  /\ ~dbUp
  /\ conn' = NoConn
  /\ connState' = Collect(connState, NoConn, lconn)
  /\ pc' = [pc EXCEPT ![h] = OnConnectError]
  /\ UNCHANGED <<backoff, log, dbUp, qn, peer, lconn, delay, doubled, received, answered, rcodes, outcome, httpVars, bootVars>>

\* time.sleep(self._backoff)
Sleep(h) ==
  /\ pc[h] = "sleep"
  /\ delay' = [delay EXCEPT ![h] = backoff]
  /\ pc' = [pc EXCEPT ![h] = "double"]
  /\ UNCHANGED <<conn, connState, backoff, log, dbUp, qn, peer, lconn, doubled, received, answered, rcodes, outcome, httpVars, bootVars>>

\* min(self._backoff * 2, 60) is evaluated: the call of min is a point where
\* the interpreter may switch threads before the result is assigned
Double(h) ==
  /\ pc[h] = "double"
  /\ doubled' = [doubled EXCEPT ![h] = NextBackoff(backoff)]
  /\ pc' = [pc EXCEPT ![h] = "store_backoff"]
  /\ UNCHANGED <<conn, connState, backoff, log, dbUp, qn, peer, lconn, delay, received, answered, rcodes, outcome, httpVars, bootVars>>

\* self._backoff = <the value computed>
StoreBackoff(h) ==
  /\ pc[h] = "store_backoff"
  /\ backoff' = doubled[h]
  /\ doubled' = [doubled EXCEPT ![h] = 0]
  /\ pc' = [pc EXCEPT ![h] = "return_conn"]
  /\ UNCHANGED <<conn, connState, log, dbUp, qn, peer, lconn, delay, received, answered, rcodes, outcome, httpVars, bootVars>>

\* return self._conn; conn = self._get_conn(); if conn is None: return
ReturnNone(h) ==
  /\ pc[h] = "return_conn"
  /\ conn = NoConn
  /\ Returned(h, "unavailable")
  /\ UNCHANGED <<conn, connState, backoff, log, dbUp, lconn, doubled, received, httpVars, bootVars>>

ReturnConn(h) ==
  /\ pc[h] = "return_conn"
  /\ conn # NoConn
  /\ lconn' = [lconn EXCEPT ![h] = conn]
  /\ pc' = [pc EXCEPT ![h] = "insert"]
  /\ UNCHANGED <<conn, connState, backoff, log, dbUp, qn, peer, delay, doubled, received, answered, rcodes, outcome, httpVars, bootVars>>

\* the INSERT is accepted: the connection is alive and the row fits its columns
InsertAccepted(h) ==
  IF connState[lconn[h]] = "open" /\ schema THEN RowFits(BeaconRow(peer[h], qn[h])) ELSE FALSE

InsertOk(h) ==
  /\ pc[h] = "insert"
  /\ InsertAccepted(h)
  /\ log' = Append(log, BeaconRow(peer[h], qn[h]))
  /\ lconn' = [lconn EXCEPT ![h] = NoConn]
  /\ connState' = Collect(connState, conn, lconn')
  /\ Returned(h, "stored")
  /\ UNCHANGED <<conn, backoff, dbUp, doubled, received, httpVars, bootVars>>

\* the INSERT raises; a connection found dead is marked closed by the driver
InsertFail(h) ==
  /\ pc[h] = "insert"
  /\ ~InsertAccepted(h)
  /\ connState' = [connState EXCEPT ![lconn[h]] = IF @ = "open" THEN "open" ELSE "closed"]
  /\ pc' = [pc EXCEPT ![h] = OnInsertError]
  /\ UNCHANGED <<conn, backoff, log, dbUp, qn, peer, lconn, delay, doubled, received, answered, rcodes, outcome, httpVars, bootVars>>

\* self._conn.close(); an AttributeError on None is passed over
Close(h) ==
  /\ pc[h] = "close"
  /\ connState' = IF conn = NoConn THEN connState ELSE [connState EXCEPT ![conn] = "closed"]
  /\ pc' = [pc EXCEPT ![h] = OnCloseError]
  /\ UNCHANGED <<conn, backoff, log, dbUp, qn, peer, lconn, delay, doubled, received, answered, rcodes, outcome, httpVars, bootVars>>

DiscardedKept == conn

\* self._conn = None
Discarded == NoConn

\* self._backoff after the except clause of _log_beacon, which assigns
\* self._conn only
BackoffOnInsertErrorGrown(b) == NextBackoff(b)
BackoffOnInsertError(b) == b

\* the connection is discarded, and _log_beacon and resolve return
Discard(h) ==
  /\ pc[h] = "discard"
  /\ conn' = Discarded
  /\ backoff' = BackoffOnInsertError(backoff)
  /\ lconn' = [lconn EXCEPT ![h] = NoConn]
  /\ connState' = Collect(connState, conn', lconn')
  /\ Returned(h, "insert_failed")
  /\ UNCHANGED <<log, dbUp, doubled, received, httpVars, bootVars>>

\* the store becomes unreachable: every session it served is dead
StoreDown ==
  /\ dbUp
  /\ dbUp' = FALSE
  /\ connState' = [i \in ConnIds |-> IF connState[i] = "open" THEN "broken" ELSE connState[i]]
  /\ UNCHANGED <<conn, backoff, log, pc, qn, peer, lconn, delay, doubled, received, answered, rcodes, outcome, httpVars, bootVars>>

StoreUp ==
  /\ ~dbUp
  /\ dbUp' = TRUE
  /\ UNCHANGED <<conn, connState, backoff, log, pc, qn, peer, lconn, delay, doubled, received, answered, rcodes, outcome, httpVars, bootVars>>

Next ==
  \/ \E h \in Handlers, q \in QNames, src \in Peers : Receive(h, q, src)
  \/ \E h \in Handlers : ResolveBeacon(h)
  \/ \E h \in Handlers : ResolveOther(h)
  \/ \E h \in Handlers : GetConn(h)
  \/ \E h \in Handlers : ConnectOk(h)
  \/ \E h \in Handlers : ConnectFail(h)
  \/ \E h \in Handlers : Sleep(h)
  \/ \E h \in Handlers : Double(h)
  \/ \E h \in Handlers : StoreBackoff(h)
  \/ \E h \in Handlers : ReturnNone(h)
  \/ \E h \in Handlers : ReturnConn(h)
  \/ \E h \in Handlers : InsertOk(h)
  \/ \E h \in Handlers : InsertFail(h)
  \/ \E h \in Handlers : Close(h)
  \/ \E h \in Handlers : Discard(h)
  \/ StoreDown
  \/ StoreUp

Spec == Init /\ [][Next]_vars

\* One datagram, with any of the names of DecodeNames, handled by resolve
\* while the store comes and goes.
InitDecode ==
  /\ conn = NoConn
  /\ connState = [i \in ConnIds |-> "free"]
  /\ backoff = BackoffFloor
  /\ log = << >>
  /\ dbUp \in BOOLEAN
  /\ pc = [h \in Handlers |-> IF h = 1 THEN "resolve" ELSE "idle"]
  /\ qn \in { [h \in Handlers |-> IF h = 1 THEN q ELSE << >>] : q \in DecodeNames }
  /\ peer \in { [h \in Handlers |-> IF h = 1 THEN src ELSE << >>] : src \in Peers }
  /\ lconn = [h \in Handlers |-> NoConn]
  /\ delay = [h \in Handlers |-> 0]
  /\ doubled = [h \in Handlers |-> 0]
  /\ received = 1
  /\ answered = 0
  /\ rcodes = {}
  /\ outcome = "none"
  /\ HttpInit
  /\ Started

NextDecode ==
  \/ \E h \in Handlers : ResolveBeacon(h)
  \/ \E h \in Handlers : ResolveOther(h)
  \/ \E h \in Handlers : GetConn(h)
  \/ \E h \in Handlers : ConnectOk(h)
  \/ \E h \in Handlers : ConnectFail(h)
  \/ \E h \in Handlers : Sleep(h)
  \/ \E h \in Handlers : Double(h)
  \/ \E h \in Handlers : StoreBackoff(h)
  \/ \E h \in Handlers : ReturnNone(h)
  \/ \E h \in Handlers : ReturnConn(h)
  \/ \E h \in Handlers : InsertOk(h)
  \/ \E h \in Handlers : InsertFail(h)
  \/ \E h \in Handlers : Close(h)
  \/ \E h \in Handlers : Discard(h)
  \/ StoreDown
  \/ StoreUp

SpecDecode == InitDecode /\ [][NextDecode]_vars

\* --------------------------------------------------------- telemetry ingest
dnsVars == <<conn, connState, backoff, log, pc, qn, peer, lconn, delay, doubled, received, answered, rcodes, outcome>>

\* POST /api/v1/telemetry with a JSON object: the handler reads the headers
\* and the body and reaches pool.execute with the arguments of the INSERT
IngestTelemetry(body, hdrs) ==
  /\ appState = "serving"
  /\ hpc = "idle"
  /\ posted < MaxPosts
  /\ body.kind = "object"
  /\ posted' = posted + 1
  /\ hbody' = Some(body)
  /\ hhdrs' = Some(hdrs)
  /\ IF TsRaised(body) \in {"none"} \cup TsCaught
     THEN /\ hargs' = Some(TelemetryArgs(body, hdrs))
          /\ hpc' = "execute"
          /\ resp' = "none"
     ELSE /\ resp' = "error"
          /\ UNCHANGED <<hpc, hargs>>
  /\ UNCHANGED <<dnsVars, dbUp, events, acked, queryVars, bootVars>>

\* POST with a JSON document that is not an object: body.get raises
\* AttributeError and the request ends in a server error
IngestNotObject(body, hdrs) ==
  /\ appState = "serving"
  /\ hpc = "idle"
  /\ posted < MaxPosts
  /\ body.kind # "object"
  /\ posted' = posted + 1
  /\ hbody' = Some(body)
  /\ hhdrs' = Some(hdrs)
  /\ resp' = "error"
  /\ UNCHANGED <<dnsVars, dbUp, events, hpc, hargs, acked, queryVars, bootVars>>

\* pool.execute succeeds: the row is in the table and the handler returns
\* {"status": "ok"}
ExecuteOk ==
  /\ hpc = "execute"
  /\ dbUp
  /\ schema
  /\ ArgsAccepted(hargs[1])
  /\ events' = Append(events, TelemetryRow(hargs[1]))
  /\ resp' = "ok"
  /\ acked' = acked + 1
  /\ hpc' = "idle"
  /\ hargs' = None
  /\ UNCHANGED <<dnsVars, dbUp, posted, hbody, hhdrs, queryVars, bootVars>>

\* the response when pool.execute raises: ingest_telemetry has no except
\* clause, so the framework answers with a server error
OnExecuteErrorSwallowed == "ok"
OnExecuteError == "error"

\* pool.execute raises (store down, or the row refused): nothing catches it
ExecuteFail ==
  /\ hpc = "execute"
  /\ IF dbUp /\ schema THEN ~ArgsAccepted(hargs[1]) ELSE TRUE
  /\ resp' = OnExecuteError
  /\ hpc' = "idle"
  /\ hargs' = None
  /\ UNCHANGED <<dnsVars, dbUp, events, posted, hbody, acked, hhdrs, queryVars, bootVars>>

InitIngest == Init /\ backoff = BackoffFloor

NextIngest ==
  \/ \E body \in Bodies, hdrs \in Headers : IngestTelemetry(body, hdrs)
  \/ \E body \in Bodies, hdrs \in Headers : IngestNotObject(body, hdrs)
  \/ ExecuteOk
  \/ ExecuteFail
  \/ StoreDown
  \/ StoreUp

SpecIngest == InitIngest /\ [][NextIngest]_vars

\* ---------------------------------------------------------- query endpoints
\* the handler up to pool.fetch: a malformed since answers 400 at once,
\* otherwise the statement is built and handed to the pool
Query(req, stmt) ==
  /\ appState = "serving"
  /\ qpc = "idle"
  /\ gets < MaxGets
  /\ gets' = gets + 1
  /\ qreq' = Some(req)
  /\ IF SinceRaises(req.since)
     THEN /\ qresp' = OnSinceError
          /\ UNCHANGED <<qpc, qstmt>>
     ELSE /\ qstmt' = Some(stmt)
          /\ qpc' = "fetch"
          /\ qresp' = NoResponse
  /\ UNCHANGED <<dnsVars, dbUp, ingestVars, bootVars, fetched>>

\* GET /api/v1/telemetry
QueryTelemetry(fingerprint, environment, since, limit) ==
  Query([endpoint |-> "telemetry", fingerprint |-> fingerprint,
         environment |-> environment, since |-> since, limit |-> limit],
        IF SinceRaises(since) THEN None
        ELSE TelemetryQuery(fingerprint, environment, since, LimitParam(limit)))

\* GET /api/v1/dns
QueryDns(fingerprint, since, limit) ==
  Query([endpoint |-> "dns", fingerprint |-> fingerprint,
         environment |-> None, since |-> since, limit |-> limit],
        IF SinceRaises(since) THEN None
        ELSE DnsQuery(fingerprint, since, LimitParam(limit)))

\* pool.fetch returns the rows and the handler answers with their projection
FetchOk ==
  /\ qpc = "fetch"
  /\ dbUp
  /\ schema
  /\ fetched' = fetched + 1
  /\ qresp' = RowsResponse
  /\ qpc' = "idle"
  /\ qstmt' = None
  /\ UNCHANGED <<dnsVars, dbUp, ingestVars, bootVars, qreq, gets>>

\* pool.fetch raises: nothing catches it
FetchFail ==
  /\ qpc = "fetch"
  /\ ~(dbUp /\ schema)
  /\ fetched' = fetched + 1
  /\ qresp' = ServerError
  /\ qpc' = "idle"
  /\ qstmt' = None
  /\ UNCHANGED <<dnsVars, dbUp, ingestVars, bootVars, qreq, gets>>

InitQuery == Init /\ backoff = BackoffFloor

NextQuery ==
  \/ \E f \in FingerprintParams, e \in EnvironmentParams, s \in SinceParams, l \in LimitParams :
       QueryTelemetry(f, e, s, l)
  \/ \E f \in FingerprintParams, s \in SinceParams, l \in LimitParams : QueryDns(f, s, l)
  \/ FetchOk
  \/ FetchFail
  \/ StoreDown
  \/ StoreUp

SpecQuery == InitQuery /\ [][NextQuery]_vars

\* ------------------------------------------------------------------ startup
\* pool = await asyncpg.create_pool(...): the pool opens its first
\* connections, and raises when the store is unreachable
CreatePool ==
  /\ appState = "starting"
  /\ appState' = IF dbUp THEN "pool" ELSE "failed"
  /\ UNCHANGED <<dnsVars, dbUp, httpVars, schema, dnsState, ensured>>

\* CREATE TABLE IF NOT EXISTS / CREATE INDEX IF NOT EXISTS: whatever exists
\* stays as it is, whatever is missing is created empty
EnsuredDropsRows(rows) == << >>
Ensured(rows) == rows

\* await conn.execute(SCHEMA_SQL), then yield: the application serves
EnsureSchema ==
  /\ appState = "pool"
  /\ dbUp
  /\ schema' = TRUE
  /\ events' = Ensured(events)
  /\ log' = Ensured(log)
  /\ ensured' = ensured + 1
  /\ appState' = "serving"
  /\ UNCHANGED <<conn, connState, backoff, pc, qn, peer, lconn, delay, doubled, received, answered, rcodes, outcome>>
  /\ UNCHANGED <<dbUp, hpc, hargs, resp, posted, hbody, acked, hhdrs, queryVars, dnsState>>

\* conn.execute(SCHEMA_SQL) raises: lifespan ends with the exception and the
\* application does not start
EnsureSchemaFail ==
  /\ appState = "pool"
  /\ ~dbUp
  /\ appState' = "failed"
  /\ UNCHANGED <<dnsVars, dbUp, httpVars, schema, dnsState, ensured>>

\* main() of dns_server.py: the resolver is built and the server thread started
DnsStart ==
  /\ dnsState = "starting"
  /\ dnsState' = "listening"
  /\ UNCHANGED <<dnsVars, dbUp, httpVars, schema, appState, ensured>>

\* Both processes about to start, against a store that is up or down and
\* either fresh (no tables) or initialized by an earlier run.
InitBoot ==
  /\ conn = NoConn
  /\ connState = [i \in ConnIds |-> "free"]
  /\ backoff = BackoffFloor
  /\ log = << >>
  /\ dbUp \in BOOLEAN
  /\ pc = [h \in Handlers |-> "idle"]
  /\ qn = [h \in Handlers |-> << >>]
  /\ peer = [h \in Handlers |-> << >>]
  /\ lconn = [h \in Handlers |-> NoConn]
  /\ delay = [h \in Handlers |-> 0]
  /\ doubled = [h \in Handlers |-> 0]
  /\ received = 0
  /\ answered = 0
  /\ rcodes = {}
  /\ outcome = "none"
  /\ HttpInit
  /\ schema \in BOOLEAN
  /\ appState = "starting"
  /\ dnsState = "starting"
  /\ ensured = 0

NextBoot ==
  \/ CreatePool
  \/ EnsureSchema
  \/ EnsureSchemaFail
  \/ DnsStart
  \/ \E h \in Handlers, q \in QNames, src \in Peers : received < MaxBootQueries /\ Receive(h, q, src)
  \/ \E h \in Handlers : ResolveBeacon(h)
  \/ \E h \in Handlers : ResolveOther(h)
  \/ \E h \in Handlers : GetConn(h)
  \/ \E h \in Handlers : ConnectOk(h)
  \/ \E h \in Handlers : ConnectFail(h)
  \/ \E h \in Handlers : Sleep(h)
  \/ \E h \in Handlers : Double(h)
  \/ \E h \in Handlers : StoreBackoff(h)
  \/ \E h \in Handlers : ReturnNone(h)
  \/ \E h \in Handlers : ReturnConn(h)
  \/ \E h \in Handlers : InsertOk(h)
  \/ \E h \in Handlers : InsertFail(h)
  \/ \E h \in Handlers : Close(h)
  \/ \E h \in Handlers : Discard(h)
  \/ \E body \in Bodies, hdrs \in Headers : posted < MaxBootPosts /\ IngestTelemetry(body, hdrs)
  \/ \E body \in Bodies, hdrs \in Headers : posted < MaxBootPosts /\ IngestNotObject(body, hdrs)
  \/ ExecuteOk
  \/ ExecuteFail
  \/ StoreDown
  \/ StoreUp

SpecBoot == InitBoot /\ [][NextBoot]_vars

\* the application process ends (pool.close() after yield, or the failed
\* startup) and its supervisor starts it again: lifespan runs once more
AppRestart ==
  /\ appState \in {"serving", "failed"}
  /\ hpc = "idle"
  /\ qpc = "idle"
  /\ ensured <= MaxRestarts
  /\ appState' = "starting"
  /\ UNCHANGED <<dnsVars, dbUp, httpVars, schema, dnsState, ensured>>

\* The application serving against an initialized store that may already
\* hold a beacon row, restarted now and then.
InitRestart ==
  /\ conn = NoConn
  /\ connState = [i \in ConnIds |-> "free"]
  /\ backoff = BackoffFloor
  /\ log \in {<< >>} \cup { <<BeaconRow(src, Str3 \o BEACON_SUFFIX)>> : src \in Peers }
  /\ dbUp = TRUE
  /\ pc = [h \in Handlers |-> "idle"]
  /\ qn = [h \in Handlers |-> << >>]
  /\ peer = [h \in Handlers |-> << >>]
  /\ lconn = [h \in Handlers |-> NoConn]
  /\ delay = [h \in Handlers |-> 0]
  /\ doubled = [h \in Handlers |-> 0]
  /\ received = Len(log)
  /\ answered = Len(log)
  /\ rcodes = IF log = << >> THEN {} ELSE {Rcode}
  /\ outcome = IF log = << >> THEN "none" ELSE "stored"
  /\ HttpInit
  /\ Started

NextRestart ==
  \/ AppRestart
  \/ CreatePool
  \/ EnsureSchema
  \/ EnsureSchemaFail
  \/ \E body \in Bodies, hdrs \in Headers : IngestTelemetry(body, hdrs)
  \/ \E body \in Bodies, hdrs \in Headers : IngestNotObject(body, hdrs)
  \/ ExecuteOk
  \/ ExecuteFail
  \/ StoreDown
  \/ StoreUp

SpecRestart == InitRestart /\ [][NextRestart]_vars

\* ------------------------------------------------------------------ claims
InFlight == {h \in Handlers : pc[h] # "idle"}

\* C1: whatever the name and whatever the store does (connected and inserted,
\* connect failed, insert failed), resolve returns its reply with result code
\* NXDOMAIN: no handler is left dead by an exception, every datagram received
\* is answered or still being handled, and every reply sent is NXDOMAIN.
C1_AlwaysNxdomain ==
  /\ \A h \in Handlers : pc[h] # "raised"
  /\ rcodes \subseteq {"NXDOMAIN"}
  /\ answered + Cardinality(InFlight) = received

\* both queries answered although the store refused a connect and nothing was stored
C1_Witness ==
  /\ answered = MaxQueries
  /\ log = << >>
  /\ ~dbUp
  /\ backoff = NextBackoff(NextBackoff(BackoffFloor))
  /\ rcodes = {"NXDOMAIN"}

\* the name ends, compared case-insensitively, with the beacon suffix
SuffixedCI(q) ==
  \E k \in 1..(Len(q) + 1) : Lower(SubSeq(q, k, Len(q))) = Lower(BEACON_SUFFIX)

\* C3: a query whose name does not end (case-insensitively) with the beacon
\* suffix is answered at once as not-a-beacon: resolve returns without a
\* connect attempt, and the connection, the connection objects, the backoff
\* and the rows of dns_beacon_log are what they were.
C3_NonBeaconNoEffect ==
  [][\A h \in Handlers :
       (pc[h] = "resolve" /\ pc'[h] # "resolve" /\ ~SuffixedCI(qn[h]))
         => /\ pc'[h] = "idle"
            /\ outcome' = "not_beacon"
            /\ answered' = answered + 1
            /\ UNCHANGED <<conn, connState, backoff, log, lconn>>]_vars

\* a name that is no beacon has been answered, and nothing else has happened
C3_Witness ==
  /\ outcome = "not_beacon"
  /\ answered = 1
  /\ conn = NoConn
  /\ backoff = BackoffFloor
  /\ log = << >>

\* C4 (as claimed): a row stored for a name with nothing left before the
\* suffix has fingerprint, src_hash and tool_version all null.
C4_SuffixOnlyAllNull ==
  \A i \in 1..Len(log) :
    Prefix(log[i].query_name) = << >>
      => /\ log[i].fingerprint = None
         /\ log[i].src_hash = None
         /\ log[i].tool_version = None

\* what is left of the name once the suffix and the dots before it are gone
IsRemainderOf(r, q) ==
  /\ Len(r) + Len(BEACON_SUFFIX) <= Len(q)
  /\ SubSeq(q, 1, Len(r)) = r
  /\ IF Len(r) = 0 THEN TRUE ELSE r[Len(r)] # "."
  /\ \A k \in (Len(r) + 1)..(Len(q) - Len(BEACON_SUFFIX)) : q[k] = "."

\* ls is r split on ".": joined by "." it gives r back and no label holds a "."
IsSplitOf(ls, r) ==
  /\ Len(ls) >= 1
  /\ Join(ls, ".") = r
  /\ \A i \in 1..Len(ls) : \A k \in 1..Len(ls[i]) : ls[i][k] # "."

Dashless(v, l) ==
  /\ Len(v) = Len(l)
  /\ \A k \in 1..Len(l) : v[k] = (IF l[k] = "-" THEN "." ELSE l[k])

DecodedByPosition(row) ==
  LET ls == Parts(row.query_name)
  IN  /\ IsRemainderOf(Prefix(row.query_name), row.query_name)
      /\ IsSplitOf(ls, Prefix(row.query_name))
      /\ row.fingerprint = Some(ls[1])
      /\ IF Len(ls) >= 2 THEN row.src_hash = Some(ls[2]) ELSE row.src_hash = None
      /\ IF Len(ls) >= 3
           THEN /\ Len(row.tool_version) = 1
                /\ Dashless(row.tool_version[1], ls[3])
           ELSE row.tool_version = None

ExampleRow(row) ==
  row.query_name = SpecExample \o BEACON_SUFFIX
    => /\ row.fingerprint = Some(<<"a", "b", "c", "1", "2", "3">>)
       /\ row.src_hash = Some(<<"d", "e", "a", "d", "b", "e", "e", "f">>)
       /\ row.tool_version = Some(<<"1", ".", "2", ".", "3">>)

\* C5: every row stored for a beacon name decodes it by position: the name
\* less its suffix and the dots before it, split on ".", gives the labels;
\* label 0 is the fingerprint, label 1 the src_hash, label 2 with every "-"
\* turned into "." the tool_version, later labels are ignored and a missing
\* position is null (abc123.deadbeef.1-2-3 gives abc123, deadbeef, 1.2.3).
C5_DecodeByPosition ==
  \A i \in 1..Len(log) : DecodedByPosition(log[i]) /\ ExampleRow(log[i])

\* a stored row of four labels, the third holding a dash, and the last ignored
C5_Witness ==
  \E i \in 1..Len(log) :
    /\ Len(Parts(log[i].query_name)) = 4
    /\ log[i].tool_version = Some(<<"b", ".", "c">>)
    /\ log[i].src_hash = Some(<< >>)

\* C2 (as claimed): the backoff stays within 1..60, a successful connect
\* resets it to 1, and each failed connect leaves it at twice (at most 60)
\* the delay that call slept, so that the delays of consecutive failures run
\* 1, 2, 4, 8, 16, 32, 60, 60, ...
C2_BackoffSequence ==
  /\ [](backoff \in BackoffFloor..BackoffCeiling)
  /\ [][\A h \in Handlers :
          (pc[h] = "connect" /\ pc'[h] = "return_conn") => backoff' = BackoffFloor]_vars
  /\ [][\A h \in Handlers :
          (pc[h] = "store_backoff" /\ pc'[h] # "store_backoff")
            => backoff' = Min(delay[h] * 2, 60)]_vars

\* the rows of a handler's query, written out
RowOf(h) ==
  [source_ip    |-> <<peer[h][1]>>,
   source_port  |-> <<peer[h][2]>>,
   query_name   |-> qn[h],
   fingerprint  |-> Fingerprint(Parts(qn[h])),
   src_hash     |-> SrcHash(Parts(qn[h])),
   tool_version |-> ToolVersion(Parts(qn[h]))]

BeaconReturn(h) == pc[h] \notin {"idle", "resolve"} /\ pc'[h] = "idle"

C7_DiscardOnInsertError ==
  /\ [][\A h \in Handlers :
          (pc[h] = "insert" /\ pc'[h] \notin {"insert", "idle"}) => pc'[h] = "close"]_vars
  /\ [][\A h \in Handlers :
          (pc[h] = "close" /\ pc'[h] # "close")
            => /\ pc'[h] = "discard"
               /\ IF conn = NoConn THEN TRUE ELSE connState'[conn] = "closed"]_vars
  /\ [][\A h \in Handlers :
          (pc[h] = "discard" /\ pc'[h] # "discard")
            => /\ conn' = NoConn
               /\ pc'[h] = "idle"
               /\ outcome' = "insert_failed"
               /\ answered' = answered + 1]_vars
  /\ [][\A h \in Handlers :
          (pc[h] = "get_conn" /\ pc'[h] = "return_conn")
            => IF conn = NoConn THEN FALSE ELSE connState[conn] # "closed"]_vars
  /\ [](IF conn = NoConn THEN TRUE
        ELSE connState[conn] = "closed" => \E h \in Handlers : pc[h] \in {"close", "discard"})

\* after a failed insert was answered, the next query is connecting afresh
C7_Witness ==
  /\ outcome = "insert_failed"
  /\ answered = 1
  /\ received = 2
  /\ conn = NoConn
  /\ \E h \in Handlers : pc[h] = "connect"

\* C8 (as claimed): a call of _get_conn makes at most one connect attempt,
\* sleeps at most 60, and when its connect failed it returns no connection:
\* the handler answers without an insert.
C8_FailedConnectUnavailable ==
  /\ [](\A h \in Handlers : delay[h] <= 60)
  /\ [][\A h \in Handlers : pc'[h] = "connect" => pc[h] \in {"connect", "get_conn"}]_vars
  /\ [][\A h \in Handlers :
          (pc[h] = "return_conn" /\ delay[h] > 0 /\ pc'[h] # "return_conn")
            => pc'[h] = "idle" /\ outcome' = "unavailable"]_vars

\* the statements of _get_conn and _log_beacon
PersistPath ==
  {"get_conn", "connect", "sleep", "double", "store_backoff", "return_conn", "insert", "close", "discard"}

\* C9 (as claimed): no two handlers are inside _get_conn/_log_beacon at once.
C9_Serialized == Cardinality({h \in Handlers : pc[h] \in PersistPath}) <= 1

\* C10: every stored telemetry_events row has a non-empty event; the stored
\* event is the event of the posted body, and "unknown" when the body has none.
PayloadEvent(raw) ==
  IF \E i \in 1..Len(raw) : raw[i][1] = "event"
  THEN (raw[CHOOSE i \in 1..Len(raw) : raw[i][1] = "event"][2]).s
  ELSE Unknown

C10_EventNeverEmpty ==
  \A i \in 1..Len(events) :
    /\ events[i].event # << >>
    /\ events[i].event = PayloadEvent(events[i].raw_payload)

\* C11: the timestamp field never fails the ingest request: whatever it is
\* (absent, not a string, an unparseable string), a posted JSON object reaches
\* the INSERT, with client_timestamp null unless the timestamp is a valid
\* ISO-8601 string; there a Z stands for +00:00, so "2024-01-01T00:00:00Z"
\* is stored as 2024-01-01T00:00:00+00:00.
PayloadMember(raw, key) ==
  IF \E i \in 1..Len(raw) : raw[i][1] = key
  THEN raw[CHOOSE i \in 1..Len(raw) : raw[i][1] = key][2]
  ELSE Absent

Utc2024 ==
  [wall |-> <<"2", "0", "2", "4", "-", "0", "1", "-", "0", "1", "T", "0", "0", ":", "0", "0", ":", "0", "0">>,
   offset |-> Some(<<"+", "0", "0", ":", "0", "0">>)]

TimestampStoredAs(raw, ts) ==
  LET t == PayloadMember(raw, "timestamp") IN
  /\ t.t # "str" => ts = None
  /\ t = JStr(NotADate) => ts = None
  /\ t = JStr(IsoZ) => ts = Some(Utc2024)

C11_TimestampNeverFails ==
  /\ [](hargs # None =>
          TimestampStoredAs(hargs[1].raw_payload, hargs[1].client_timestamp))
  /\ [](\A i \in 1..Len(events) :
          TimestampStoredAs(events[i].raw_payload, events[i].client_timestamp))
  /\ [][(posted' = posted + 1 /\ hbody'[1].kind = "object")
          => (hpc' = "execute" /\ hargs' # None /\ resp' = "none")]_vars

C11_Witness ==
  /\ Len(events) = 2
  /\ resp = "ok"
  /\ PayloadMember(events[1].raw_payload, "timestamp") = JStr(NotADate)
  /\ events[1].client_timestamp = None
  /\ PayloadMember(events[2].raw_payload, "timestamp") = JStr(IsoZ)
  /\ events[2].client_timestamp = Some(Utc2024)

\* C12: the ingest endpoint acknowledges with {"status": "ok"} only after the
\* insert has succeeded, and each acknowledged POST has created exactly one
\* telemetry_events row; when the insert fails the request ends in a server
\* error, with no acknowledgment and no row.
C12_AckOnlyAfterInsert ==
  /\ [](Len(events) = acked)
  /\ [](resp = "ok" => acked > 0)
  /\ [][(hpc = "execute" /\ hpc' = "idle") =>
          \/ /\ resp' = "ok"
             /\ events' = Append(events, TelemetryRow(hargs[1]))
             /\ dbUp /\ ArgsAccepted(hargs[1])
          \/ /\ resp' = "error"
             /\ events' = events
             /\ ~(dbUp /\ ArgsAccepted(hargs[1]))]_vars
  /\ [][(resp' = "ok" /\ hpc' = hpc) => (resp = "ok" /\ events' = events)]_vars

C12_Witness ==
  /\ posted = 2
  /\ acked = 1
  /\ Len(events) = 1
  /\ resp = "error"
  /\ hpc = "idle"
  /\ hbody # None
  /\ hbody[1].kind = "object"

\* C13: on both query endpoints a malformed since parameter is answered with
\* a 400 client error carrying an explicit message, and no storage query is
\* made for that request, whatever the other filters are.
MalformedSince(since) ==
  IF since = None THEN FALSE
  ELSE IF since[1] = << >> THEN FALSE
  ELSE ~IsIso(ReplaceWith(since[1], "Z", <<"+", "0", "0", ":", "0", "0">>))

C13_MalformedSinceIs400 ==
  /\ [][(gets' = gets + 1 /\ MalformedSince(qreq'[1].since)) =>
          /\ qresp'.status = 400
          /\ qresp'.error # ""
          /\ qpc' = "idle"
          /\ qstmt' = None
          /\ fetched' = fetched]_vars
  /\ [](qpc = "fetch" => ~MalformedSince(qreq[1].since))
  /\ [][fetched' # fetched => (qpc = "fetch" /\ ~MalformedSince(qreq[1].since))]_vars

C13_Witness ==
  /\ gets = 2
  /\ fetched = 1
  /\ qpc = "idle"
  /\ qresp.status = 400
  /\ qreq[1].endpoint = "dns"
  /\ qreq[1].since = Some(NotADate)
  /\ Given(qreq[1].fingerprint)

\* C14: on both query endpoints the limit passed to the storage query lies in
\* [1, 1000]: a requested limit above 1000 becomes 1000 (5000 gives 1000), one
\* below 1 becomes 1 (0 gives 1), one inside the range is unchanged, and a
\* request without a limit gets 100.
LimitAsClaimed(requested, passed) ==
  /\ passed \in 1..1000
  /\ requested = None => passed = 100
  /\ requested # None =>
       /\ requested[1] > 1000 => passed = 1000
       /\ requested[1] < 1 => passed = 1
       /\ requested[1] \in 1..1000 => passed = requested[1]

C14_LimitClamped ==
  qpc = "fetch" =>
    /\ LimitAsClaimed(qreq[1].limit, qstmt[1].limit)
    /\ qreq[1].limit = Some(5000) => qstmt[1].limit = 1000
    /\ qreq[1].limit = Some(0) => qstmt[1].limit = 1

C14_Witness ==
  /\ qpc = "fetch"
  /\ gets = 2
  /\ fetched = 1
  /\ qreq[1].limit = Some(0)
  /\ qstmt[1].limit = 1

\* C20: in both query builders, for every combination of filters that reaches
\* the storage query, the predicates come in the order fingerprint,
\* environment (telemetry only), since; their placeholders are numbered 1..n
\* in that order, the bound arguments are one per predicate in the same order,
\* and the limit is bound to placeholder n + 1.
FilterColumns == <<"fingerprint", "environment", "received_at">>

FilterGiven(req, col) ==
  IF col = "fingerprint" THEN Given(req.fingerprint)
  ELSE IF col = "environment" THEN req.endpoint = "telemetry" /\ Given(req.environment)
  ELSE Given(req.since)

ExpectedColumns(req) == SelectSeq(FilterColumns, LAMBDA c : FilterGiven(req, c))

ArgIsFor(arg, req, col) ==
  IF col = "fingerprint" THEN arg.t = "str" /\ arg.s = req.fingerprint[1]
  ELSE IF col = "environment" THEN arg.t = "str" /\ arg.s = req.environment[1]
  ELSE arg.t = "ts"

C20_PlaceholdersInOrder ==
  qpc = "fetch" =>
    LET st == qstmt[1]
        req == qreq[1]
        cols == ExpectedColumns(req)
        n == Len(cols)
    IN /\ st.table = (IF req.endpoint = "telemetry" THEN "telemetry_events" ELSE "dns_beacon_log")
       /\ Len(st.where) = n
       /\ Len(st.args) = n
       /\ \A i \in 1..n :
            /\ st.where[i].col = cols[i]
            /\ st.where[i].ph = i
            /\ st.where[i].op = (IF cols[i] = "received_at" THEN ">=" ELSE "=")
            /\ ArgIsFor(st.args[i], req, cols[i])
       /\ st.limit_ph = n + 1

C20_Witness ==
  /\ qpc = "fetch"
  /\ qreq[1].endpoint = "telemetry"
  /\ Len(qstmt[1].where) = 3
  /\ qstmt[1].where[3] = [col |-> "received_at", op |-> ">=", ph |-> 3]
  /\ qstmt[1].limit_ph = 4

\* C15: the source IP the ingest endpoint stores is the CF-Connecting-IP
\* header when present, else the first comma-separated, trimmed entry of
\* X-Forwarded-For, else the peer address; a lower-priority source is used
\* only when every higher-priority one is absent.
BeforeComma(s) ==
  LET commas == {i \in 1..Len(s) : s[i] = ","}
      k == IF commas = {} THEN Len(s) + 1 ELSE CHOOSE i \in commas : \A j \in commas : i <= j
  IN SubSeq(s, 1, k - 1)

Trimmed(s) ==
  LET inked == {i \in 1..Len(s) : s[i] # " "}
  IN IF inked = {} THEN << >>
     ELSE SubSeq(s, CHOOSE i \in inked : \A j \in inked : i <= j,
                    CHOOSE i \in inked : \A j \in inked : i >= j)

FirstForwarded(h) == Trimmed(BeforeComma(h.xff[1]))

C15_StrictPrecedence ==
  hargs # None =>
    LET h == hhdrs[1]
        ip == hargs[1].source_ip
    IN /\ h.cf # None => ip = h.cf[1]
       /\ (h.cf = None /\ h.xff # None) => ip = FirstForwarded(h)
       /\ (h.cf = None /\ h.xff = None) => ip = h.client

\* C15, amended: a header counts only when it has a value (a non-empty
\* CF-Connecting-IP; an X-Forwarded-For whose first entry is non-empty after
\* trimming); with that reading the precedence is strict, and the stored row
\* carries the address chosen.
HasCf(h) == IF h.cf = None THEN FALSE ELSE h.cf[1] # << >>
HasForwarded(h) == IF h.xff = None THEN FALSE ELSE FirstForwarded(h) # << >>

C15_PrecedenceOverValues ==
  /\ [](hargs # None =>
          LET h == hhdrs[1]
              ip == hargs[1].source_ip
          IN /\ HasCf(h) => ip = h.cf[1]
             /\ (~HasCf(h) /\ HasForwarded(h)) => ip = FirstForwarded(h)
             /\ (~HasCf(h) /\ ~HasForwarded(h)) => ip = h.client)
  /\ [][events' # events =>
          events'[Len(events')].source_ip = hargs[1].source_ip]_vars

C15_Witness ==
  /\ Len(events) = 2
  /\ resp = "ok"
  /\ events[1].source_ip = Ip1
  /\ events[2].source_ip = Ip2
  /\ hhdrs[1].cf = None
  /\ hhdrs[1].xff = Some(Forwarded)

\* C16: the schema bootstrap comes before traffic: SCHEMA_SQL is run once at
\* startup and has completed before any request or datagram is handled (no
\* insert or query reaches the store before it), and when it fails the
\* process does not start serving.
C16_SchemaBeforeTraffic ==
  /\ [](ensured <= 1)
  /\ []((hpc # "idle" \/ qpc # "idle" \/ posted > 0 \/ gets > 0) => ensured = 1)
  /\ [](appState = "serving" => ensured = 1)
  /\ [][appState = "failed" => appState' = "failed"]_vars
  /\ [](appState = "failed" => (posted = 0 /\ gets = 0))
  /\ [](received > 0 => ensured = 1)
  /\ [](\A h \in Handlers : pc[h] = "insert" => schema)

\* C17: the schema bootstrap is idempotent: run again against a store that is
\* already initialized it does not error, and it leaves the tables and every
\* existing row of telemetry_events and dns_beacon_log unchanged.
C17_EnsureSchemaIdempotent ==
  /\ [][(ensured' # ensured /\ schema) =>
          /\ ensured' = ensured + 1
          /\ schema'
          /\ events' = events
          /\ log' = log
          /\ appState' = "serving"]_vars
  /\ [][(appState = "pool" /\ appState' = "failed") => ~dbUp]_vars
  /\ [][(appState = "pool" /\ appState' # "pool") => (schema' = TRUE \/ ~dbUp)]_vars

C17_Witness ==
  /\ ensured = 2
  /\ appState = "serving"
  /\ Len(events) = 1
  /\ Len(log) = 1
  /\ posted = 1

\* C18: recovery is on demand and immediate: whatever failed before and
\* whatever the backoff has grown to, no query skips its connect attempt when
\* no usable connection is held, and once the store is reachable again the
\* very next beacon query reconnects and its row is inserted.
C18_ImmediateRecovery ==
  /\ [][\A h \in Handlers :
          (pc[h] = "get_conn" /\ pc'[h] # "get_conn" /\ NeedsConnect) => pc'[h] = "connect"]_vars
  /\ [][\A h \in Handlers :
          (pc[h] = "get_conn" /\ pc'[h] = "return_conn") => connState[conn] = "open"]_vars
  /\ [][\A h \in Handlers :
          (pc[h] = "insert" /\ pc'[h] # "insert" /\ dbUp /\ schema /\ RowFits(RowOf(h)))
            => log' = Append(log, RowOf(h))]_vars

\* C19: the backoff is changed only by connect attempts: an insert failure
\* leaves it unchanged, so when connects succeed and inserts keep failing,
\* each query connects afresh (no sleep, backoff 1) and fails its insert with
\* the backoff still 1.
C19_BackoffOnlyByConnect ==
  /\ [][\A h \in Handlers :
          (pc[h] \in {"insert", "close", "discard"} /\ pc'[h] # pc[h]) => backoff' = backoff]_vars
  /\ [][backoff' # backoff =>
          \E h \in Handlers : pc[h] \in {"connect", "store_backoff"} /\ pc'[h] = "return_conn"]_vars
  /\ [][\A h \in Handlers :
          (pc[h] = "connect" /\ pc'[h] = "return_conn") => (backoff' = 1 /\ delay'[h] = 0)]_vars
  /\ [][\A h \in Handlers :
          (pc[h] = "discard" /\ pc'[h] = "idle") => (conn' = NoConn /\ outcome' = "insert_failed")]_vars

C19_Witness ==
  /\ answered = 2
  /\ log = << >>
  /\ outcome = "insert_failed"
  /\ backoff = 1
  /\ dbUp
  /\ conn = NoConn
  /\ \A i \in ConnIds : connState[i] = "free"

====
